---- MODULE Spec2Model ----
(***************************************************************************)
(* A model of the ELF loader of kernel_prelink: the address types of       *)
(* src/src/mem.rs and Loader::load of src/src/loader.rs, run against a     *)
(* reference MMU that keeps a page table and a log of the calls it got.    *)
(*                                                                         *)
(* Two specifications:                                                     *)
(*   SpecAddr  applies the pure address operations of mem.rs to inputs     *)
(*             drawn from bounded sets;                                    *)
(*   Spec      runs Loader::load step by step (one action per loop         *)
(*             iteration or MMU call), its inputs drawn as the code reads  *)
(*             them.                                                       *)
(*                                                                         *)
(* A usize is modelled by an integer; the inputs are far below 2^64, so    *)
(* the only arithmetic of load that can leave the range is the             *)
(* subtraction at - config.start (line 151), which is modelled with both   *)
(* outcomes a build can give: a panic with overflow checks; without them   *)
(* the difference wraps and the addition of line 152 wraps back, to the    *)
(* exact sum config.target + at - config.start, which the inputs keep      *)
(* non-negative.  For the From<usize> conversions, whose masks are wider   *)
(* than TLC's integers, a usize is modelled by the set of its one bits.    *)
(***************************************************************************)
EXTENDS Integers, Sequences, FiniteSets

VARIABLES
    \* ---- the address operations (SpecAddr)
    aop,        \* the operation applied last ("idle" before the first)
    ain,        \* its input
    aout,       \* its result
    \* ---- Loader::load (Spec)
    pc,         \* position in load
    checked,    \* whether the build has overflow checks (debug) or wraps (release)
    secs,       \* the section headers the iterator has yielded so far
    dynamic,    \* `dynamic`: the Dynamic view captured in phase 1, if any
    cur,        \* the page loop in progress: [lo, hi, perm], and the loop variable
    held,       \* `page`: the page alloc() returned, not yet passed to map
    nalloc,     \* the MMU's allocator: pages handed out so far
    pagetable,  \* the MMU's page table: vpn -> [ppn, perm]
    calls,      \* the calls load has made (MMU, lookup, raw write), in order
    copied,     \* the image byte ranges written into pages' backing storage
                \* (load writes none: line 120 is a TODO)
    config,     \* `ldso`: the VDSOConfig, if any
    stack,      \* `stack`: the StackConfig
    nrela,      \* relocation entries taken from the table so far
    abort       \* why load panicked ("" while it has not)

avars == <<aop, ain, aout>>
lvars == <<pc, checked, secs, dynamic, cur, held, nalloc, pagetable, calls,
           copied, config, stack, nrela, abort>>
vars == <<aop, ain, aout, pc, checked, secs, dynamic, cur, held, nalloc,
          pagetable, calls, copied, config, stack, nrela, abort>>

----------------------------------------------------------------------------
(* Bounds of the model *)

\* pages an address given to floor/ceil may lie in (SpecAddr)
MaxAddrPage == 6
\* sections the image may hold
MaxSections == 2
\* pages a section's address may lie in, from page 1
MaxSecPage == 1
\* entries of the relocation table
MaxRela == 2
\* the MMU's first free physical page
AllocBasePpn == 64
\* the physical page the VDSO starts in
VdsoBasePpn == 128
\* the virtual page the VDSO and the stack are normally placed at
HighVpn == 16

----------------------------------------------------------------------------
(* mem.rs: the address model *)

PAGE_SIZE == 4096

RECURSIVE TrailingZeros(_)
TrailingZeros(n) == IF n % 2 = 1 THEN 0 ELSE 1 + TrailingZeros(n \div 2)

PAGE_SIZE_BITS == TrailingZeros(PAGE_SIZE)

PA_WIDTH_SV39 == 56

\* (1 << w) - 1, as the set of its one bits
LowMask(w) == 0 .. (w - 1)

\* v & m on sets of one bits
BitAnd(v, m) == v \cap m

PhysAddrFrom(v) == BitAnd(v, LowMask(PA_WIDTH_SV39))

VirtAddrFrom(v) == BitAnd(v, LowMask(PA_WIDTH_SV39))

PageOffset(a) == a % PAGE_SIZE

PhysFloor(a) == a \div PAGE_SIZE

PhysCeil(a) == (a + PAGE_SIZE - 1) \div PAGE_SIZE

VirtFloor(a) == a \div PAGE_SIZE

VirtCeilPlusOne(a) == (a \div PAGE_SIZE) + 1
VirtCeil(a) == (a + PAGE_SIZE - 1) \div PAGE_SIZE

\* From<PageNum> for the address: v.0 << PAGE_SIZE_BITS
PageNumToAddr(p) == p * (2 ^ PAGE_SIZE_BITS)

----------------------------------------------------------------------------
(* SpecAddr: the address operations on bounded inputs *)

HALF == PAGE_SIZE \div 2

\* addresses in pages 0 .. MaxAddrPage, at the edges and the middle of a page
AddrInputs ==
    { p * PAGE_SIZE + o : p \in 0 .. MaxAddrPage,
                          o \in {0, 1, HALF, PAGE_SIZE - 1} }

\* raw integers, as sets of one bits around the two address widths
RawInputs == SUBSET {0, 12, 38, 39, 40, 55, 56, 63}

AddrIdle == aop = "idle" /\ ain = 0 /\ aout = 0

PhysRound(a) ==
    /\ aop' = "phys_round"
    /\ ain' = a
    /\ aout' = [floor |-> PhysFloor(a),
                ceil  |-> PhysCeil(a),
                back  |-> PhysFloor(PageNumToAddr(PhysCeil(a)))]
    /\ UNCHANGED lvars

VirtRound(a) ==
    /\ aop' = "virt_round"
    /\ ain' = a
    /\ aout' = [floor |-> VirtFloor(a),
                ceil  |-> VirtCeil(a),
                back  |-> VirtFloor(PageNumToAddr(VirtCeil(a)))]
    /\ UNCHANGED lvars

PhysFrom(v) ==
    /\ aop' = "phys_from"
    /\ ain' = v
    /\ aout' = PhysAddrFrom(v)
    /\ UNCHANGED lvars

VirtFrom(v) ==
    /\ aop' = "virt_from"
    /\ ain' = v
    /\ aout' = VirtAddrFrom(v)
    /\ UNCHANGED lvars

AddrNext ==
    \/ \E a \in AddrInputs : PhysRound(a)
    \/ \E a \in AddrInputs : VirtRound(a)
    \/ \E v \in RawInputs : PhysFrom(v)
    \/ \E v \in RawInputs : VirtFrom(v)

----------------------------------------------------------------------------
(* loader.rs: values *)

NoneV == [some |-> FALSE, val |-> 0]
Some(x) == [some |-> TRUE, val |-> x]

Perm(r, w, x) == [r |-> r, w |-> w, x |-> x]
NoPerm == Perm(FALSE, FALSE, FALSE)

SectionTypes == {"SHT_PROGBITS", "SHT_NOBITS"}

\* A Page is the n-th page the allocator handed out; 0 is no page.
NoPage == 0

\* page.inner() as *const u8 as usize: where the page's bytes are
PageInnerAddr(page) == (AllocBasePpn + page - 1) * PAGE_SIZE

\* One call load made.  Every record has every field; an operation leaves
\* the ones it does not use at their defaults.  phase and idx say which loop
\* of load made the call (idx: the section's position in the image).
NoCall ==
    [op |-> "", phase |-> "", idx |-> 0, page |-> NoPage, ppn |-> 0, vpn |-> 0,
     perm |-> NoPerm, name |-> "", addr |-> 0, val |-> 0, ok |-> FALSE]

AllocCall(phase, idx, page) ==
    [NoCall EXCEPT !.op = "alloc", !.phase = phase, !.idx = idx, !.page = page]

MapCall(phase, idx, page, vpn, perm) ==
    [NoCall EXCEPT !.op = "map", !.phase = phase, !.idx = idx, !.page = page,
                   !.vpn = vpn, !.perm = perm]

MapExistingCall(ppn, vpn, perm) ==
    [NoCall EXCEPT !.op = "map_existing", !.phase = "vdso", !.ppn = ppn,
                   !.vpn = vpn, !.perm = perm]

\* addr notes the entry the name came from (its offset field)
LookupCall(idx, ent, name, res) ==
    [NoCall EXCEPT !.op = "lookup", !.phase = "rela", !.idx = idx,
                   !.name = name, !.addr = ent.offset, !.ok = res.some,
                   !.val = res.val]

TranslateCall(idx, vaddr, res) ==
    [NoCall EXCEPT !.op = "translate", !.phase = "rela", !.idx = idx,
                   !.addr = vaddr, !.ok = res.some, !.val = res.val]

WriteCall(idx, paddr, value) ==
    [NoCall EXCEPT !.op = "write", !.phase = "rela", !.idx = idx,
                   !.addr = paddr, !.val = value]

----------------------------------------------------------------------------
(* The MMU: a reference implementation of the trait *)

\* map_existing: install vpn -> ppn with perm (a later call for the same vpn
\* replaces the earlier mapping)
MapExisting(pt, ppn, vpn, perm) ==
    [v \in (DOMAIN pt) \cup {vpn} |->
        IF v = vpn THEN [ppn |-> ppn, perm |-> perm] ELSE pt[v]]

\* map: the trait's default body
Map(pt, page, vpn, perm) ==
    MapExisting(pt, PhysFloor(PageInnerAddr(page)), vpn, perm)

\* translate: the physical address behind vaddr, if its page is mapped
Translate(pt, vaddr) ==
    IF VirtFloor(vaddr) \in DOMAIN pt
    THEN Some(PageNumToAddr(pt[VirtFloor(vaddr)].ppn) + PageOffset(vaddr))
    ELSE NoneV

----------------------------------------------------------------------------
(* The inputs of load *)

\* Section headers of a well-formed image: a section's bytes buf[offset ..
\* offset + size) lie inside the buffer, and addr + size is far from 2^64.
\* An allocated section of size 0 is malformed and kept: load asserts on it.
\* where a section lies: from a page's start to its middle, or from a page's
\* middle to one byte into the page after the next boundary; or nowhere
SecExtents ==
    { [addr |-> p * PAGE_SIZE + e[1], size |-> e[2]] :
        p \in 1 .. MaxSecPage,
        e \in {<<0, 0>>, <<0, HALF>>, <<HALF, PAGE_SIZE + 1>>} }

\* sections with initialised bytes (.text, .rodata, .data, ...)
ProgbitsSections ==
    { [dyn |-> FALSE, flags |-> f \cup {"SHF_ALLOC"}, sh_type |-> "SHT_PROGBITS",
       addr |-> x.addr, size |-> x.size, offset |-> 64] :
        f \in SUBSET {"SHF_WRITE", "SHF_EXECINSTR"}, x \in SecExtents }

\* sections without bytes in the image (.bss): allocated and writable
NobitsSections ==
    { [dyn |-> FALSE, flags |-> {"SHF_ALLOC", "SHF_WRITE"}, sh_type |-> "SHT_NOBITS",
       addr |-> x.addr, size |-> x.size, offset |-> 64] : x \in SecExtents }

\* sections that take no memory (a symbol or string table, debug data)
OtherSections ==
    { [dyn |-> FALSE, flags |-> {}, sh_type |-> "SHT_PROGBITS",
       addr |-> 0, size |-> HALF, offset |-> 64] }

\* sections whose name starts with .dynamic
DynamicSections ==
    { [dyn |-> TRUE, flags |-> f, sh_type |-> "SHT_PROGBITS",
       addr |-> PAGE_SIZE, size |-> HALF, offset |-> 64] :
        f \in {{}, {"SHF_ALLOC", "SHF_WRITE"}} }

SectionSet ==
    ProgbitsSections \cup NobitsSections \cup OtherSections \cup DynamicSections

\* What Dynamic::parse may return: no relocation table, or one of either kind
DynViews == { [rel |-> k] : k \in {"none", "RELA", "REL"} }
NoDynamic == [some |-> FALSE, rel |-> "none"]
SomeDynamic(view) == [some |-> TRUE, rel |-> view.rel]

\* Entries of the RELA table.  info is <<high 32 bits, low 32 bits>>.
RelaEntries ==
    { [info |-> <<1, 6>>, offset |-> o] : o \in {8, PAGE_SIZE + 8} }

\* ent.info >> 32
Shr32(info) == info[1]

\* dynamic.resolve_sym(index): the symbol's name
ResolveSym(index) == IF index = 1 THEN "vdso_sym" ELSE "other_sym"

VdsoStart == VdsoBasePpn * PAGE_SIZE

VdsoConfigs ==
    { [start |-> VdsoStart, end |-> e, target |-> t] :
        e \in {VdsoStart + HALF, VdsoStart + 2 * PAGE_SIZE},
        t \in {HighVpn * PAGE_SIZE, PAGE_SIZE} }

\* What config.lookup may answer for a name: nothing, an address inside the
\* VDSO, or an address before its start
LookupResults(cfg) == {NoneV, Some(cfg.start + 64), Some(cfg.start - 64)}

\* [start, end) with start <= end: a page apart from everything else, a
\* range that straddles two low pages, an empty one
StackConfigs ==
    { [start |-> (HighVpn + 4) * PAGE_SIZE, end |-> (HighVpn + 5) * PAGE_SIZE],
      [start |-> PAGE_SIZE + HALF, end |-> 2 * PAGE_SIZE + HALF],
      [start |-> 4 * PAGE_SIZE, end |-> 4 * PAGE_SIZE] }
NoStack == [start |-> 0, end |-> 0]

----------------------------------------------------------------------------
(* Loader::load, phase 1: the sections *)

NoLoop == [lo |-> 0, hi |-> 0, at |-> 0, perm |-> NoPerm, src |-> NoneV]

\* lines 101-107: the section's bytes in the image, [from, to), if it has any
SecSrc(sec) ==
    IF sec.sh_type # "SHT_NOBITS"
    THEN Some(<<sec.offset, sec.offset + sec.size>>)
    ELSE NoneV

SecVirtStart(sec) == VirtFloor(sec.addr)

SecVirtEnd(sec) == VirtCeil(sec.addr + sec.size)

SecPermAllWritable(sec) ==
    Perm(TRUE, TRUE, "SHF_EXECINSTR" \in sec.flags)
SecPerm(sec) ==
    Perm(TRUE, "SHF_WRITE" \in sec.flags, "SHF_EXECINSTR" \in sec.flags)

LoaderIdle ==
    /\ pc = "idle" /\ checked = FALSE /\ secs = <<>> /\ dynamic = NoDynamic
    /\ cur = NoLoop /\ held = NoPage /\ nalloc = 0 /\ pagetable = <<>>
    /\ calls = <<>> /\ copied = {} /\ config = NoneV /\ stack = NoStack
    /\ nrela = 0 /\ abort = ""

LoaderInit ==
    /\ pc = "start" /\ checked \in BOOLEAN /\ secs = <<>> /\ dynamic = NoDynamic
    /\ cur = NoLoop /\ held = NoPage /\ nalloc = 0 /\ pagetable = <<>>
    /\ calls = <<>> /\ copied = {} /\ config = NoneV /\ stack = NoStack
    /\ nrela = 0 /\ abort = ""

Panic(why) ==
    /\ pc' = "aborted"
    /\ abort' = why

\* line 83: Elf64::from_bytes(buf).unwrap()
ParseElf(ok) ==
    /\ pc = "start"
    /\ IF ok THEN pc' = "sections" /\ abort' = abort
             ELSE Panic("from_bytes unwrap")
    /\ UNCHANGED <<checked, secs, dynamic, cur, held, nalloc, pagetable, calls,
                   copied, config, stack, nrela>>
    /\ UNCHANGED avars

\* lines 88-115: the iterator yields one more header
NextSection(sec, view) ==
    /\ pc = "sections"
    /\ Len(secs) < MaxSections
    /\ secs' = Append(secs, sec)
    /\ dynamic' = IF sec.dyn THEN SomeDynamic(view) ELSE dynamic
    /\ IF "SHF_ALLOC" \notin sec.flags
       THEN UNCHANGED <<pc, abort, cur>>
       ELSE IF ~(sec.size > 0)
       THEN Panic("assert size > 0") /\ UNCHANGED cur
       ELSE /\ cur' = [lo |-> SecVirtStart(sec), hi |-> SecVirtEnd(sec),
                       at |-> SecVirtStart(sec), perm |-> SecPerm(sec),
                       src |-> SecSrc(sec)]
            /\ pc' = IF SecVirtStart(sec) < SecVirtEnd(sec)
                     THEN "sec_alloc" ELSE "sections"
            /\ abort' = abort
    /\ UNCHANGED <<checked, held, nalloc, pagetable, calls, copied, config,
                   stack, nrela>>
    /\ UNCHANGED avars

\* line 119: let page = mmu.alloc()
SecAlloc ==
    /\ pc = "sec_alloc"
    /\ nalloc' = nalloc + 1
    /\ held' = nalloc + 1
    /\ calls' = Append(calls, AllocCall("section", Len(secs), nalloc + 1))
    /\ pc' = "sec_map"
    /\ UNCHANGED <<checked, secs, dynamic, cur, pagetable, copied, config,
                   stack, nrela, abort>>
    /\ UNCHANGED avars

\* lines 120-122: mmu.map(page, vpn, perm), and the loop goes on or ends
SecMap ==
    /\ pc = "sec_map"
    /\ pagetable' = Map(pagetable, held, cur.at, cur.perm)
    /\ calls' = Append(calls, MapCall("section", Len(secs), held, cur.at, cur.perm))
    /\ held' = NoPage
    /\ cur' = [cur EXCEPT !.at = cur.at + 1]
    /\ pc' = IF cur.at + 1 < cur.hi THEN "sec_alloc" ELSE "sections"
    /\ UNCHANGED <<checked, secs, dynamic, nalloc, copied, config, stack,
                   nrela, abort>>
    /\ UNCHANGED avars

\* line 123: the iterator is exhausted
SectionsDone ==
    /\ pc = "sections"
    /\ pc' = "vdso"
    /\ UNCHANGED <<checked, secs, dynamic, cur, held, nalloc, pagetable, calls,
                   copied, config, stack, nrela, abort>>
    /\ UNCHANGED avars

----------------------------------------------------------------------------
(* Loader::load, phase 2: the VDSO and its relocations *)

\* lines 131-135
VdsoPerm == Perm(TRUE, FALSE, TRUE)

\* lines 127-128
VdsoStartPpn(cfg) == PhysFloor(cfg.start)
VdsoEndPpn(cfg) == PhysCeil(cfg.end)

\* lines 129, 138-139: the virtual page of physical page ppn
VdsoVpnNoOffset(cfg, ppn) == VirtFloor(cfg.target)
VdsoVpn(cfg, ppn) == VirtFloor(cfg.target) + (ppn - PhysFloor(cfg.start))

\* line 126, ldso = None
VdsoNone ==
    /\ pc = "vdso"
    /\ config' = NoneV
    /\ pc' = "stack"
    /\ UNCHANGED <<checked, secs, dynamic, cur, held, nalloc, pagetable, calls,
                   copied, stack, nrela, abort>>
    /\ UNCHANGED avars

\* lines 126-135, ldso = Some(config)
VdsoBegin(cfg) ==
    /\ pc = "vdso"
    /\ config' = Some(cfg)
    /\ cur' = [lo |-> VdsoStartPpn(cfg), hi |-> VdsoEndPpn(cfg),
               at |-> VdsoStartPpn(cfg), perm |-> VdsoPerm, src |-> NoneV]
    /\ pc' = IF VdsoStartPpn(cfg) < VdsoEndPpn(cfg) THEN "vdso_map" ELSE "reloc"
    /\ UNCHANGED <<checked, secs, dynamic, held, nalloc, pagetable, calls,
                   copied, stack, nrela, abort>>
    /\ UNCHANGED avars

\* lines 137-141: one iteration
VdsoMap ==
    /\ pc = "vdso_map"
    /\ pagetable' = MapExisting(pagetable, cur.at, VdsoVpn(config.val, cur.at),
                                cur.perm)
    /\ calls' = Append(calls, MapExistingCall(cur.at, VdsoVpn(config.val, cur.at),
                                              cur.perm))
    /\ cur' = [cur EXCEPT !.at = cur.at + 1]
    /\ pc' = IF cur.at + 1 < cur.hi THEN "vdso_map" ELSE "reloc"
    /\ UNCHANGED <<checked, secs, dynamic, held, nalloc, copied, config, stack,
                   nrela, abort>>
    /\ UNCHANGED avars

\* lines 143-146, 159: which relocation table there is
RelocDispatch ==
    /\ pc = "reloc"
    /\ \/ /\ ~dynamic.some
          /\ pc' = "stack" /\ abort' = abort
       \/ /\ dynamic.some /\ dynamic.rel = "none"
          /\ pc' = "stack" /\ abort' = abort
       \/ /\ dynamic.some /\ dynamic.rel = "RELA"
          /\ pc' = "rela" /\ abort' = abort
       \/ /\ dynamic.some /\ dynamic.rel = "REL"
          /\ Panic("todo: REL")
    /\ UNCHANGED <<checked, secs, dynamic, cur, held, nalloc, pagetable, calls,
                   copied, config, stack, nrela>>
    /\ UNCHANGED avars

\* line 149: whether the lookup found the symbol
LookupFoundAlways(res) == TRUE
LookupFound(res) == res.some

\* line 151: at - config.start overflows
SubOverflows(cfg, at) == at < cfg.start

\* lines 151-152
TargetVaddrNoRebase(cfg, at) == cfg.target + at
TargetVaddr(cfg, at) == cfg.target + (at - cfg.start)

\* lines 147-157: one entry of the table
RelaEntry(ent, res) ==
    /\ pc = "rela"
    /\ nrela < MaxRela
    /\ nrela' = nrela + 1
    /\ LET name == ResolveSym(Shr32(ent.info))
           look == LookupCall(nrela + 1, ent, name, res)
           paddr == Translate(pagetable, ent.offset)
           tran == TranslateCall(nrela + 1, ent.offset, paddr)
           value == TargetVaddr(config.val, res.val)
       IN  IF ~LookupFound(res)
           THEN /\ calls' = Append(calls, look)
                /\ UNCHANGED <<pc, abort>>
           ELSE IF SubOverflows(config.val, res.val) /\ checked
           THEN /\ calls' = Append(calls, look)
                /\ Panic("attempt to subtract with overflow")
           ELSE IF ~paddr.some
           THEN /\ calls' = calls \o <<look, tran>>
                /\ Panic("translate unwrap")
           ELSE /\ calls' = calls \o <<look, tran,
                                       WriteCall(nrela + 1, paddr.val, value)>>
                /\ UNCHANGED <<pc, abort>>
    /\ UNCHANGED <<checked, secs, dynamic, cur, held, nalloc, pagetable, copied,
                   config, stack>>
    /\ UNCHANGED avars

\* line 157: the table is exhausted
RelaDone ==
    /\ pc = "rela"
    /\ pc' = "stack"
    /\ UNCHANGED <<checked, secs, dynamic, cur, held, nalloc, pagetable, calls,
                   copied, config, stack, nrela, abort>>
    /\ UNCHANGED avars

----------------------------------------------------------------------------
(* Loader::load, phase 3: the stack *)

\* lines 172-176
StackPerm == Perm(TRUE, TRUE, FALSE)

\* lines 170-171
StackStartVpn(st) == VirtFloor(st.start)
StackEndVpnFloor(st) == VirtFloor(st.end)
StackEndVpn(st) == VirtCeil(st.end)

\* lines 170-176
StackBegin(st) ==
    /\ pc = "stack"
    /\ stack' = st
    /\ cur' = [lo |-> StackStartVpn(st), hi |-> StackEndVpn(st),
               at |-> StackStartVpn(st), perm |-> StackPerm, src |-> NoneV]
    /\ pc' = IF StackStartVpn(st) < StackEndVpn(st) THEN "stack_alloc" ELSE "done"
    /\ UNCHANGED <<checked, secs, dynamic, held, nalloc, pagetable, calls,
                   copied, config, nrela, abort>>
    /\ UNCHANGED avars

\* line 179
StackAlloc ==
    /\ pc = "stack_alloc"
    /\ nalloc' = nalloc + 1
    /\ held' = nalloc + 1
    /\ calls' = Append(calls, AllocCall("stack", 0, nalloc + 1))
    /\ pc' = "stack_map"
    /\ UNCHANGED <<checked, secs, dynamic, cur, pagetable, copied, config,
                   stack, nrela, abort>>
    /\ UNCHANGED avars

\* lines 180-181, then 183-187 when the loop ends
StackMapTwice ==
    /\ pc = "stack_map"
    /\ pagetable' = Map(pagetable, held, cur.at, cur.perm)
    /\ calls' = calls \o << MapCall("stack", 0, held, cur.at, cur.perm),
                            MapCall("stack", 0, held, cur.at, cur.perm) >>
    /\ held' = NoPage
    /\ cur' = [cur EXCEPT !.at = cur.at + 1]
    /\ pc' = IF cur.at + 1 < cur.hi THEN "stack_alloc" ELSE "done"
    /\ UNCHANGED <<checked, secs, dynamic, nalloc, copied, config, stack,
                   nrela, abort>>
    /\ UNCHANGED avars
StackMap ==
    /\ pc = "stack_map"
    /\ pagetable' = Map(pagetable, held, cur.at, cur.perm)
    /\ calls' = Append(calls, MapCall("stack", 0, held, cur.at, cur.perm))
    /\ held' = NoPage
    /\ cur' = [cur EXCEPT !.at = cur.at + 1]
    /\ pc' = IF cur.at + 1 < cur.hi THEN "stack_alloc" ELSE "done"
    /\ UNCHANGED <<checked, secs, dynamic, nalloc, copied, config, stack,
                   nrela, abort>>
    /\ UNCHANGED avars

----------------------------------------------------------------------------
(* The specifications *)

LoaderNext ==
    \/ \E ok \in BOOLEAN : ParseElf(ok)
    \/ \E sec \in SectionSet :
         \E view \in (IF sec.dyn THEN DynViews ELSE {NoDynamic}) :
           NextSection(sec, view)
    \/ SecAlloc
    \/ SecMap
    \/ SectionsDone
    \/ VdsoNone
    \/ \E cfg \in VdsoConfigs : VdsoBegin(cfg)
    \/ VdsoMap
    \/ RelocDispatch
    \/ \E ent \in RelaEntries :
         \E res \in (IF config.some THEN LookupResults(config.val) ELSE {NoneV}) :
           RelaEntry(ent, res)
    \/ RelaDone
    \/ \E st \in StackConfigs : StackBegin(st)
    \/ StackAlloc
    \/ StackMap

Init == LoaderInit /\ AddrIdle
Next == LoaderNext
Spec == Init /\ [][Next]_vars

InitAddr == AddrIdle /\ LoaderIdle
NextAddr == AddrNext
SpecAddr == InitAddr /\ [][NextAddr]_vars

----------------------------------------------------------------------------
(* Reading the log *)

Idx(seq) == 1 .. Len(seq)

\* the calls one loop of load made, in order
CallsOf(phase, idx) ==
    SelectSeq(calls, LAMBDA c : c.phase = phase /\ c.idx = idx)

MappingCalls == SelectSeq(calls, LAMBDA c : c.op \in {"map", "map_existing"})

\* the page loop of section i has run to its end
SectionComplete(i) == i < Len(secs) \/ pc \notin {"sec_alloc", "sec_map"}

\* s is alloc, map, alloc, map, ... over the pages lo, lo + 1, ... with perm,
\* each map on the page the alloc before it returned
IsAllocMapRun(s, lo, perm) ==
    \A k \in Idx(s) :
        IF k % 2 = 1
        THEN s[k].op = "alloc"
        ELSE /\ s[k].op = "map"
             /\ s[k].page = s[k - 1].page
             /\ s[k].vpn = lo + (k \div 2) - 1
             /\ s[k].perm = perm

Max(a, b) == IF a > b THEN a ELSE b
Min(a, b) == IF a < b THEN a ELSE b

----------------------------------------------------------------------------
(* The claims *)

\* C1: every section with SHF_ALLOC (and size > 0) gets exactly one alloc
\* followed by one map for each vpn of [floor(addr), ceil(addr + size)), in
\* order, every map with r set, w = SHF_WRITE and x = SHF_EXECINSTR; a
\* section without SHF_ALLOC gets no alloc and no map.
C1_SectionMapping ==
    \A i \in Idx(secs) :
        LET sec == secs[i]
            run == CallsOf("section", i)
            lo == VirtFloor(sec.addr)
            hi == VirtCeil(sec.addr + sec.size)
        IN  IF "SHF_ALLOC" \in sec.flags /\ sec.size > 0
            THEN /\ IsAllocMapRun(run, lo,
                        Perm(TRUE, "SHF_WRITE" \in sec.flags,
                             "SHF_EXECINSTR" \in sec.flags))
                 /\ Len(run) <= 2 * (hi - lo)
                 /\ SectionComplete(i) => Len(run) = 2 * (hi - lo)
            ELSE run = <<>>

\* load has returned after a writable two-page section and a section that
\* takes no memory
C1_Witness ==
    /\ pc = "done"
    /\ \E i \in Idx(secs) :
         /\ secs[i].flags = {"SHF_ALLOC", "SHF_WRITE"}
         /\ Len(CallsOf("section", i)) = 4
    /\ \E i \in Idx(secs) : "SHF_ALLOC" \notin secs[i].flags

\* C2: for every SHF_ALLOC section that is not SHT_NOBITS, each page mapped
\* for it holds, from the map call on, the section's bytes that fall in
\* that page: buf[offset ..] for the part of [addr, addr + size) in the page.
C2_ContentCopied ==
    \A i \in Idx(secs) :
        LET sec == secs[i]
        IN  ("SHF_ALLOC" \in sec.flags /\ sec.sh_type # "SHT_NOBITS") =>
              \A k \in Idx(CallsOf("section", i)) :
                 LET c == CallsOf("section", i)[k]
                     from == Max(sec.addr, c.vpn * PAGE_SIZE)
                     to == Min(sec.addr + sec.size, (c.vpn + 1) * PAGE_SIZE)
                 IN  c.op = "map" =>
                       \E w \in copied :
                          /\ w.page = c.page
                          /\ w.from = sec.offset + (from - sec.addr)
                          /\ w.to = sec.offset + (to - sec.addr)

\* the VDSO loop has run to its end
VdsoMapped ==
    /\ config.some
    /\ pc \in {"reloc", "rela", "stack", "stack_alloc", "stack_map", "done",
               "aborted"}

VdsoCallPositions == { i \in Idx(calls) : calls[i].op = "map_existing" }

\* C3: with a VDSOConfig, the splice makes exactly one map_existing for each
\* ppn of [floor(start), ceil(end)), in order, at vpn = floor(target) + (ppn -
\* floor(start)) with permission r-x, and no alloc between the first and the
\* last of them; without one, load makes no map_existing call.
C3_VdsoSplice ==
    LET run == SelectSeq(calls, LAMBDA c : c.op = "map_existing")
    IN  /\ ~config.some => run = <<>>
        /\ config.some =>
             LET cfg == config.val
                 lo == PhysFloor(cfg.start)
                 hi == PhysCeil(cfg.end)
             IN  /\ \A k \in Idx(run) :
                       /\ run[k].ppn = lo + k - 1
                       /\ run[k].vpn = VirtFloor(cfg.target) + (run[k].ppn - lo)
                       /\ run[k].perm = Perm(TRUE, FALSE, TRUE)
                 /\ Len(run) <= hi - lo
                 /\ VdsoMapped => Len(run) = hi - lo
                 /\ \A i, j \in VdsoCallPositions :
                       \A m \in i .. j : calls[m].op # "alloc"

\* load has returned after splicing a two-page VDSO
C3_Witness ==
    /\ pc = "done"
    /\ config.some
    /\ Cardinality(VdsoCallPositions) = 2

\* the step that takes one entry of the RELA table, its lookup having
\* answered with an address
RelaStepFound ==
    /\ pc = "rela"
    /\ nrela' = nrela + 1
    /\ calls'[Len(calls) + 1].ok

\* the entry's fixup was made: after the lookup, one translate of the
\* entry's offset and one write of config.target + (at - config.start) at
\* the address translate gave; then the next entry
FixupWritten ==
    LET look == calls'[Len(calls) + 1]
        paddr == Translate(pagetable, look.addr)
    IN  /\ Len(calls') = Len(calls) + 3
        /\ calls'[Len(calls) + 2].op = "translate"
        /\ calls'[Len(calls) + 2].addr = look.addr
        /\ calls'[Len(calls) + 3].op = "write"
        /\ calls'[Len(calls) + 3].addr = paddr.val
        /\ calls'[Len(calls) + 3].val =
              config.val.target + (look.val - config.val.start)
        /\ pc' = "rela"

\* C4, as claimed: for every RELA entry whose name the lookup resolves to an
\* address at, whatever at, start and target are, load writes exactly one
\* word, at translate(ent.offset), of value config.target + (at -
\* config.start).  (Entries whose offset the MMU does not translate are left
\* out: for them there is no address to write at.)
C4_Original ==
    [][ (RelaStepFound
         /\ Translate(pagetable, calls'[Len(calls) + 1].addr).some)
        => FixupWritten ]_vars

\* C4, amended: the same for every at >= config.start (so that at -
\* config.start does not overflow).
C4_Fixup ==
    [][ (RelaStepFound
         /\ Translate(pagetable, calls'[Len(calls) + 1].addr).some
         /\ calls'[Len(calls) + 1].val >= config.val.start)
        => FixupWritten ]_vars

\* a fixup was written for a symbol 64 bytes into the VDSO
C4_Witness ==
    /\ config.some
    /\ \E i \in Idx(calls) :
         /\ calls[i].op = "write"
         /\ calls[i].val = config.val.target + 64
         /\ calls[i - 2].op = "lookup"
         /\ calls[i - 2].val = config.val.start + 64

\* C5: a RELA entry whose lookup returns nothing causes no translate and no
\* write and no panic: the call after its lookup, if any, is the next
\* entry's lookup or the stack's first alloc, and load has not aborted when
\* that lookup is the last call made.
C5_UnresolvedSkipped ==
    \A i \in Idx(calls) :
        (calls[i].op = "lookup" /\ ~calls[i].ok) =>
            /\ i < Len(calls) =>
                 \/ calls[i + 1].op = "lookup" /\ calls[i + 1].idx = calls[i].idx + 1
                 \/ calls[i + 1].op = "alloc" /\ calls[i + 1].phase = "stack"
            /\ i = Len(calls) => pc # "aborted"

\* load has returned after an unresolved entry, a resolved one after it and
\* the stack
C5_Witness ==
    /\ pc = "done"
    /\ \E i \in Idx(calls) :
         /\ calls[i].op = "lookup" /\ ~calls[i].ok
         /\ i + 4 <= Len(calls)
         /\ calls[i + 1].op = "lookup" /\ calls[i + 1].ok
         /\ calls[i + 3].op = "write"
         /\ calls[i + 4].op = "alloc"

\* C6: no virtual page number is passed to map or map_existing more than
\* once, across the sections, the VDSO and the stack.
C6_NeverRemaps ==
    \A i, j \in Idx(MappingCalls) :
        i # j => MappingCalls[i].vpn # MappingCalls[j].vpn

\* C7: the stack phase makes exactly ceil(end) - floor(start) alloc+map
\* pairs, one for each vpn of [floor(start), ceil(end)), in order, every map
\* with permission rw-, with or without a VDSOConfig.
C7_StackMapping ==
    LET run == CallsOf("stack", 0)
        lo == VirtFloor(stack.start)
        hi == VirtCeil(stack.end)
    IN  /\ IsAllocMapRun(run, lo, Perm(TRUE, TRUE, FALSE))
        /\ Len(run) <= 2 * (hi - lo)
        /\ pc = "done" => Len(run) = 2 * (hi - lo)
        /\ pc \notin {"stack_alloc", "stack_map", "done"} => run = <<>>

\* load has returned, without a VDSOConfig, after a stack whose ends are
\* not page-aligned and which takes two pages
C7_Witness ==
    /\ pc = "done"
    /\ ~config.some
    /\ PageOffset(stack.end) # 0
    /\ Len(CallsOf("stack", 0)) = 4

\* C8: floor(a) * 4096 <= a <= ceil(a) * 4096, floor(ceil(a) as an address)
\* = ceil(a), and ceil(a) = floor(a) exactly when a is a multiple of 4096,
\* ceil(a) = floor(a) + 1 otherwise; for PhysAddr and VirtAddr.
C8_Rounding ==
    aop \in {"phys_round", "virt_round"} =>
        /\ aout.floor * 4096 <= ain
        /\ ain <= aout.ceil * 4096
        /\ aout.back = aout.ceil
        /\ (aout.ceil = aout.floor) <=> (ain % 4096 = 0)
        /\ ain % 4096 # 0 => aout.ceil = aout.floor + 1

\* a virtual address one byte into a page was rounded
C8_Witness ==
    /\ aop = "virt_round"
    /\ ain = PAGE_SIZE + 1
    /\ aout.floor = 1
    /\ aout.ceil = 2

\* C9: PhysAddr::from(v) keeps only the low 56 bits of v and
\* VirtAddr::from(v) only the low 39 bits, so a constructed VirtAddr is
\* below 2^39.
C9_Truncation ==
    /\ aop = "phys_from" => aout = { b \in ain : b < 56 }
    /\ aop = "virt_from" => aout = { b \in ain : b < 39 }

\* C10: each alloc is followed at once by one map of the page it returned,
\* no page is mapped twice, every mapped page came from an alloc, and when
\* load has returned or aborted no allocated page is left unmapped.
C10_PageConsumed ==
    LET allocs == { i \in Idx(calls) : calls[i].op = "alloc" }
        maps == { i \in Idx(calls) : calls[i].op = "map" }
    IN  /\ \A i \in allocs :
              IF i < Len(calls)
              THEN calls[i + 1].op = "map" /\ calls[i + 1].page = calls[i].page
              ELSE held = calls[i].page /\ pc \in {"sec_map", "stack_map"}
        /\ \A i \in maps :
              /\ i - 1 \in allocs
              /\ calls[i - 1].page = calls[i].page
        /\ \A i, j \in maps : i # j => calls[i].page # calls[j].page
        /\ \A i, j \in allocs : i # j => calls[i].page # calls[j].page
        /\ pc \in {"done", "aborted"} =>
              /\ held = NoPage
              /\ { calls[i].page : i \in allocs } = { calls[i].page : i \in maps }

\* load has aborted in the relocations after mapping a section's pages
C10_Witness ==
    /\ pc = "aborted"
    /\ abort = "translate unwrap"
    /\ Cardinality({ i \in Idx(calls) : calls[i].op = "map" }) >= 2

====
